---- MODULE Spec2Model ----
(***************************************************************************)
(* Interactive logic core of bevy-sudoku: the per-cell Value, the Fixed    *)
(* flag, the Selected marker, the process-wide InputMode, and the systems  *)
(* that mutate them (handle_clicks, set_cell_value, erase_selected_cells,  *)
(* select_all, swap_input_mode, input_mode_buttons).                       *)
(*                                                                         *)
(* Two revisions of the Action-phase systems live in the tree:             *)
(*   - src/logic/board.rs  (LogicPlugin)        -> specification Spec      *)
(*   - src/input/actions.rs (InteractionPlugin) -> specification           *)
(*     SpecInteraction                                                     *)
(* The pure Value transitions are exercised on their own under SpecValue.  *)
(***************************************************************************)
EXTENDS Integers, Sequences, FiniteSets, TLC

\* ---------------------------------------------------------------- bounds
\* Number of cell entities on the modelled board (the game has 81).
NumCells == 3
\* Largest digit a key can enter on the modelled board (the game has 9).
MaxDigit == 1
\* Largest number of CellInput events read by one run of set_cell_value.
MaxBatch == 2
\* Largest digit used when the pure transitions are exercised alone.
FnMaxDigit == 2
\* Number of transitions chained when the pure transitions are exercised.
FnMaxSteps == 2
MaxTicks == 2
MaxPressed == 2

Cells == 1..NumCells
Digits == 1..MaxDigit
FnDigits == 1..FnMaxDigit

\* Option<Entity>::None of CellClick.selected_cell
NoCell == 0

\* ---------------------------------------------------------------- Value
\* enum Value { Empty, Filled(u8), Marked(CenterMarks, CornerMarks) }
\* Unused fields hold a canonical filler so that record equality is the
\* derived PartialEq of the enum.
Empty == [tag |-> "Empty", num |-> 0, center |-> {}, corner |-> {}]

Filled(d) == [tag |-> "Filled", num |-> d, center |-> {}, corner |-> {}]

Marked(c, k) == [tag |-> "Marked", num |-> 0, center |-> c, corner |-> k]

ValuesOver(D) ==
    {Empty} \cup {Filled(d) : d \in D}
            \cup {Marked(c, k) : c \in SUBSET D, k \in SUBSET D}

\* enum InputMode { Fill, CenterMark, CornerMark }
InputMode == {"Fill", "CenterMark", "CornerMark"}

\* impl Default for InputMode
\* A default input mode of centre marks.
InputMode_default_CenterMark == "CenterMark"

InputMode_default == "Fill"

\* A cleanup that normalizes nothing.
cleanup_Identity(v) == v

\* Value::cleanup: empty marks become an empty cell
cleanup(v) == IF v = Marked({}, {}) THEN Empty ELSE v

\* CenterMarks::new
CenterMarks_new(num) == {} \cup {num}

\* CornerMarks::new
CornerMarks_new(num) == {} \cup {num}

\* An update that inserts the mark and never removes it.
CenterMarks_update_AlwaysInsert(marks, num) == marks \cup {num}

\* CenterMarks::update
CenterMarks_update(marks, num) ==
    IF num \in marks THEN marks \ {num} ELSE marks \cup {num}

\* CornerMarks::update
CornerMarks_update(marks, num) ==
    IF num \in marks THEN marks \ {num} ELSE marks \cup {num}

\* A fill that overwrites and never toggles the same digit off.
update_value_fill_NoToggle(old_value, new_num) == Filled(new_num)

\* update_value_fill
update_value_fill(old_value, new_num) ==
    CASE old_value.tag = "Empty"  -> Filled(new_num)
      [] old_value.tag = "Marked" -> Filled(new_num)
      [] old_value.tag = "Filled" ->
            IF old_value.num = new_num THEN Empty ELSE Filled(new_num)

\* update_value_center
update_value_center(old_value, num) ==
    CASE old_value.tag = "Empty"  -> Marked(CenterMarks_new(num), {})
      [] old_value.tag = "Marked" ->
            Marked(CenterMarks_update(old_value.center, num), old_value.corner)
      [] old_value.tag = "Filled" -> Marked(CenterMarks_new(num), {})

\* update_value_corner
update_value_corner(old_value, num) ==
    CASE old_value.tag = "Empty"  -> Marked({}, CornerMarks_new(num))
      [] old_value.tag = "Marked" ->
            Marked(old_value.center, CornerMarks_update(old_value.corner, num))
      [] old_value.tag = "Filled" -> Marked({}, CornerMarks_new(num))

\* ---------------------------------------------------------------- state
VARIABLES
    value,       \* Value component of each cell entity
    fixed,       \* Fixed component of each cell entity
    selected,    \* the entities carrying the Selected marker component
    input_mode,  \* the InputMode resource
    last,        \* history: the system that ran last, with the input it read
    f_start,     \* pure transitions alone: the Value the chain started from
    f_val,       \* pure transitions alone: the current Value
    f_trace,     \* pure transitions alone: the transitions applied so far
    coordinates, \* spawn_board alone: the Coordinates of the cells spawned so far
    sq_visited,  \* spawn_board alone: the cell whose Coordinates were read last
    panicked,    \* a system panicked: the app is gone
    t_phase,     \* frame schedule: "run" inside the Update stage, else "settled"
    ticks,       \* frame schedule: the frames started so far
    t_in,        \* frame schedule: the mouse and keyboard state of this frame
    t_ran,       \* frame schedule: the systems that ran in this frame
    mouse_down,  \* frame schedule: the left button was down in the last frame
    cell_index,  \* the cells whose bounding box CellIndex holds
    click_events, \* Events<CellClick> not yet read by handle_clicks
    input_events, \* Events<CellInput> not yet read by set_cell_value
    command_queue, \* the Commands queued in this stage, not yet applied
    shown_sel,   \* the cells drawn with the selection colour
    shown_val,   \* the Value each cell's text was written from
    shown_fixed, \* the Fixed flag each cell's font was chosen from
    cell_map,    \* CellIndex::cell_map: the bounding box stored for each cell
    ix_point,    \* the position CellIndex::get was last called with
    ix_result,   \* what that call returned
    initial_puzzle,  \* the InitialPuzzle resource: the clue of each cell
    complete_puzzle, \* the CompletePuzzle resource: the solution of each cell
    pz_filled    \* fill_puzzle has run

vars == <<value, fixed, selected, input_mode, last, f_start, f_val, f_trace,
          coordinates, sq_visited, panicked,
          t_phase, ticks, t_in, t_ran, mouse_down, cell_index,
          click_events, input_events, command_queue, shown_sel, shown_val, shown_fixed,
          cell_map, ix_point, ix_result, initial_puzzle, complete_puzzle, pz_filled>>

boardVars == <<value, fixed, selected, input_mode, last>>

fnVars == <<f_start, f_val, f_trace>>

sqVars == <<coordinates, sq_visited>>

\* The variables of the parts of the program that the board's handlers do
\* not touch.
tickCtl == <<t_phase, ticks, t_in, mouse_down>>

queueVars == <<click_events, input_events, command_queue>>

shownVars == <<shown_sel, shown_val, shown_fixed>>

tickVars == <<tickCtl, t_ran, cell_index, queueVars, shownVars>>

ixVars == <<cell_map, ix_point, ix_result>>

pzVars == <<initial_puzzle, complete_puzzle, pz_filled>>

extraVars == <<ixVars, pzVars>>

sideVars == <<sqVars, panicked, tickVars, extraVars>>

\* A key of the keyboard: A, Delete, Q, W, E, or a digit key of the number
\* row (Key) or of the numpad (Numpad).
Key(kind) == [kind |-> kind, num |-> 0]

DigitKey(kind, num) == [kind |-> kind, num |-> num]

KeyCodes ==
    {Key(k) : k \in {"A", "Delete", "Q", "W", "E"}}
        \cup {DigitKey(k, d) : k \in {"Key", "Numpad"}, d \in Digits}

\* The mouse and keyboard state a frame starts with: the left button
\* (up, just pressed, or held since an earlier frame), the cell under the
\* cursor (or no cell, or no cursor position at all), Control held, Shift held, and the keys just pressed.
NoInput ==
    [mouse |-> "up", cursor |-> NoCell, ctrl |-> FALSE, shift |-> FALSE, keys |-> {}]

\* Before the first frame: nothing indexed, queued or drawn.
TickIdle ==
    /\ t_phase = "settled"
    /\ ticks = 0
    /\ t_in = NoInput
    /\ t_ran = {}
    /\ mouse_down = FALSE
    /\ cell_index = {}
    /\ click_events = <<>>
    /\ input_events = <<>>
    /\ command_queue = <<>>
    /\ shown_sel = {}
    /\ shown_val = [c \in Cells |-> Empty]
    /\ shown_fixed = [c \in Cells |-> FALSE]

\* The start values of these variables, kept wherever they are not at work.
SideIdle ==
    /\ coordinates = <<>>
    /\ sq_visited = 0
    /\ panicked = FALSE
    /\ TickIdle
    /\ cell_map = <<>>
    /\ ix_point = [x |-> 0, y |-> 0]
    /\ ix_result = [called |-> FALSE, entity |-> NoCell]
    /\ initial_puzzle = <<>>
    /\ complete_puzzle = <<>>
    /\ pz_filled = FALSE

\* struct CellClick { selected_cell, multi, drag }
CellClick == [selected_cell : Cells \cup {NoCell}, multi : BOOLEAN, drag : BOOLEAN]

\* What the history variable records of a system run: the system, the
\* CellInput numbers or the CellClick events it read, the mode keys or the
\* mode button pressed, and the selection it started from.
LastOf(op, nums, clicks, keys, sel) ==
    [op |-> op, nums |-> nums, clicks |-> clicks, keys |-> keys, sel |-> sel]

\* ------------------------------------------------------------ set_cell_value
\* The match with the two mark modes swapped.
\* An update that applies the Fill logic in every mode.
ModeUpdate_AlwaysFill(mode, old_value, num) == update_value_fill(old_value, num)

ModeUpdate_SwappedMarks(mode, old_value, num) ==
    CASE mode = "Fill"       -> update_value_fill(old_value, num)
      [] mode = "CenterMark" -> cleanup(update_value_corner(old_value, num))
      [] mode = "CornerMark" -> cleanup(update_value_center(old_value, num))

\* The match on *input_mode in logic/board.rs: marks go through cleanup.
ModeUpdate(mode, old_value, num) ==
    CASE mode = "Fill"       -> update_value_fill(old_value, num)
      [] mode = "CenterMark" -> cleanup(update_value_center(old_value, num))
      [] mode = "CornerMark" -> cleanup(update_value_corner(old_value, num))

\* The same match in input/actions.rs: no cleanup.
actions_ModeUpdate(mode, old_value, num) ==
    CASE mode = "Fill"       -> update_value_fill(old_value, num)
      [] mode = "CenterMark" -> update_value_center(old_value, num)
      [] mode = "CornerMark" -> update_value_corner(old_value, num)

\* The orders in which query.iter_mut() may yield the entities of S.
IterOrders(S) ==
    {o \in [1..Cardinality(S) -> S] : \A i, j \in DOMAIN o : o[i] = o[j] => i = j}

\* The inner loop without the test of is_fixed.
RECURSIVE CellLoop_NoFixedGuard(_, _, _, _, _, _)
CellLoop_NoFixedGuard(vals, is_fixed, order, i, mode, num) ==
    IF i > Len(order) THEN vals
    ELSE CellLoop_NoFixedGuard(
             [vals EXCEPT ![order[i]] = ModeUpdate(mode, @, num)],
             is_fixed, order, i + 1, mode, num)

\* The inner loop of set_cell_value (logic/board.rs) from position i of the
\* iteration order: a Fixed cell ends the loop (break).
RECURSIVE CellLoop(_, _, _, _, _, _)
CellLoop(vals, is_fixed, order, i, mode, num) ==
    IF i > Len(order) THEN vals
    ELSE IF is_fixed[order[i]] THEN vals
    ELSE CellLoop([vals EXCEPT ![order[i]] = ModeUpdate(mode, @, num)],
                  is_fixed, order, i + 1, mode, num)

\* The inner loop of set_cell_value (input/actions.rs).
RECURSIVE actions_CellLoop(_, _, _, _, _, _)
actions_CellLoop(vals, is_fixed, order, i, mode, num) ==
    IF i > Len(order) THEN vals
    ELSE IF is_fixed[order[i]] THEN vals
    ELSE actions_CellLoop(
             [vals EXCEPT ![order[i]] = actions_ModeUpdate(mode, @, num)],
             is_fixed, order, i + 1, mode, num)

\* The outer loop of set_cell_value (logic/board.rs) over the events read.
RECURSIVE EventLoop(_, _, _, _, _, _)
EventLoop(vals, is_fixed, order, mode, events, e) ==
    IF e > Len(events) THEN vals
    ELSE EventLoop(CellLoop(vals, is_fixed, order, 1, mode, events[e]),
                   is_fixed, order, mode, events, e + 1)

\* The outer loop of set_cell_value (input/actions.rs).
RECURSIVE actions_EventLoop(_, _, _, _, _, _)
actions_EventLoop(vals, is_fixed, order, mode, events, e) ==
    IF e > Len(events) THEN vals
    ELSE actions_EventLoop(
             actions_CellLoop(vals, is_fixed, order, 1, mode, events[e]),
             is_fixed, order, mode, events, e + 1)

\* The batches of CellInput events one run of set_cell_value may read.
CellInputBatches == UNION {[1..n -> Digits] : n \in 1..MaxBatch}

\* logic::board::set_cell_value
set_cell_value ==
    \E events \in CellInputBatches, order \in IterOrders(selected \cap Cells) :
        /\ value' = EventLoop(value, fixed, order, input_mode, events, 1)
        /\ last' = LastOf("set_cell_value", events, <<>>, {}, selected)
        /\ UNCHANGED <<fixed, selected, input_mode, fnVars, sideVars>>

\* input::actions::set_cell_value
actions_set_cell_value ==
    \E events \in CellInputBatches, order \in IterOrders(selected \cap Cells) :
        /\ value' = actions_EventLoop(value, fixed, order, input_mode, events, 1)
        /\ last' = LastOf("set_cell_value", events, <<>>, {}, selected)
        /\ UNCHANGED <<fixed, selected, input_mode, fnVars, sideVars>>

\* ------------------------------------------------------------ handle_clicks
\* The entities of S as a sequence, in ascending order: one order in which
\* cell_query.iter() may yield them.
RECURSIVE IterSeq(_)
IterSeq(S) ==
    IF S = {} THEN <<>>
    ELSE LET m == CHOOSE x \in S : \A y \in S : x <= y
         IN <<m>> \o IterSeq(S \ {m})

\* commands.entity(entity).insert(Selected)
InsertSelected(entity) == [cmd |-> "insert", entity |-> entity]

\* commands.entity(entity).remove::<Selected>()
RemoveSelected(entity) == [cmd |-> "remove", entity |-> entity]

\* No command at all in place of the removal loop.
RemoveAll_Nothing == <<>>

\* for (entity, _, _) in cell_query.iter() { remove::<Selected>() }
RemoveAll == [i \in 1..NumCells |-> RemoveSelected(IterSeq(Cells)[i])]

\* A match on the variant of the Value alone, not on its content.
InsertMatching_ByVariant(vals, current_value) ==
    LET matching == IterSeq({c \in Cells : vals[c].tag = current_value.tag})
    IN [i \in 1..Len(matching) |-> InsertSelected(matching[i])]

\* for (entity, _, value) in cell_query.iter()
\*     { if *value == *current_value { insert(Selected) } }
InsertMatching(vals, current_value) ==
    LET matching == IterSeq({c \in Cells : vals[c] = current_value})
    IN [i \in 1..Len(matching) |-> InsertSelected(matching[i])]

\* A single click that does not clear the selection before selecting the cell.
SingleClick_NoClear(entity, maybe_selected, n_selected, vals) ==
    IF maybe_selected /\ n_selected <= 1
    THEN RemoveAll \o InsertMatching(vals, vals[entity])
    ELSE <<InsertSelected(entity)>>

\* The branch of handle_clicks for a single, instant click: clear every
\* selection, then select the matching cells (double click) or the cell.
SingleClick(entity, maybe_selected, n_selected, vals) ==
    RemoveAll \o
    (IF maybe_selected /\ n_selected <= 1
     THEN InsertMatching(vals, vals[entity])
     ELSE <<InsertSelected(entity)>>)

\* A drag click that resets the selection to the cell.
DragClick_Replace(entity) == RemoveAll \o <<InsertSelected(entity)>>

\* The branch of handle_clicks for a drag click: select the cell.
DragClick(entity) == <<InsertSelected(entity)>>

\* A multi click that selects and never unselects.
MultiClick_AlwaysInsert(entity, maybe_selected) == <<InsertSelected(entity)>>

\* The branch of handle_clicks for a click with Shift or Control held.
MultiClick(entity, maybe_selected) ==
    IF maybe_selected THEN <<RemoveSelected(entity)>>
    ELSE <<InsertSelected(entity)>>

\* The body of the loop of handle_clicks for one click event: the commands it
\* queues, computed from the selection and the values the system's query sees.
ClickCommands(click_event, sel, vals) ==
    IF click_event.selected_cell = NoCell THEN RemoveAll
    ELSE LET entity == click_event.selected_cell
             maybe_selected == entity \in sel
             n_selected == Cardinality({c \in Cells : c \in sel})
         IN IF click_event.drag THEN DragClick(entity)
            ELSE IF click_event.multi THEN MultiClick(entity, maybe_selected)
            ELSE SingleClick(entity, maybe_selected, n_selected, vals)

\* The loop of handle_clicks over the events read: every event is decided on
\* the query's view at the start of the system, its commands are appended.
RECURSIVE ClickLoop(_, _, _, _)
ClickLoop(events, e, sel, vals) ==
    IF e > Len(events) THEN <<>>
    ELSE ClickCommands(events[e], sel, vals) \o ClickLoop(events, e + 1, sel, vals)

\* The command queue applied to the world when the stage ends.
RECURSIVE ApplyCommands(_, _, _)
ApplyCommands(commands, i, sel) ==
    IF i > Len(commands) THEN sel
    ELSE ApplyCommands(commands, i + 1,
             IF commands[i].cmd = "insert" THEN sel \cup {commands[i].entity}
             ELSE sel \ {commands[i].entity})

\* cell_click sends at most one CellClick per frame and handle_clicks reads
\* its events every frame: the batches it reads hold one event.
CellClickBatches == {<<ev>> : ev \in CellClick}

\* logic::board::handle_clicks
handle_clicks ==
    \E events \in CellClickBatches :
        /\ selected' = ApplyCommands(ClickLoop(events, 1, selected, value), 1, selected)
        /\ last' = LastOf("handle_clicks", <<>>, events, {}, selected)
        /\ UNCHANGED <<value, fixed, input_mode, fnVars, sideVars>>

\* input::actions::handle_clicks: the same text as logic::board::handle_clicks
actions_handle_clicks ==
    \E events \in CellClickBatches :
        /\ selected' = ApplyCommands(ClickLoop(events, 1, selected, value), 1, selected)
        /\ last' = LastOf("handle_clicks", <<>>, events, {}, selected)
        /\ UNCHANGED <<value, fixed, input_mode, fnVars, sideVars>>

\* ------------------------------------------------------------ keyboard.rs
\* An erase that clears filled digits and keeps pencil marks.
EraseValue_KeepMarks(is_fixed, old_value) ==
    IF ~is_fixed /\ old_value.tag = "Filled" THEN Empty ELSE old_value

\* The body of the loop of erase_selected_cells for one selected cell.
EraseValue(is_fixed, old_value) ==
    IF ~is_fixed THEN Empty ELSE old_value

\* A select-all that passes over the clue cells.
SelectAllCommands_SkipFixed ==
    LET cells == IterSeq({c \in Cells : ~fixed[c]})
    IN [i \in 1..Len(cells) |-> InsertSelected(cells[i])]

\* The commands queued by select_all: Selected for every cell of the query.
SelectAllCommands ==
    [i \in 1..NumCells |-> InsertSelected(IterSeq(Cells)[i])]

\* erase_selected_cells, when Delete or Back was just pressed
erase_selected_cells ==
    /\ value' = [c \in Cells |->
                    IF c \in selected THEN EraseValue(fixed[c], value[c])
                    ELSE value[c]]
    /\ last' = LastOf("erase_selected_cells", <<>>, <<>>, {}, selected)
    /\ UNCHANGED <<fixed, selected, input_mode, fnVars, sideVars>>

\* select_all, when Ctrl is held and A was just pressed
select_all ==
    /\ selected' = ApplyCommands(SelectAllCommands, 1, selected)
    /\ last' = LastOf("select_all", <<>>, <<>>, {}, selected)
    /\ UNCHANGED <<value, fixed, input_mode, fnVars, sideVars>>

\* A chain that tests the keys in the order E, W, Q.
SwapTarget_CornerFirst(keys, mode) ==
    IF "E" \in keys THEN "CornerMark"
    ELSE IF "W" \in keys THEN "CenterMark"
    ELSE IF "Q" \in keys THEN "Fill"
    ELSE mode

\* The if / else-if chain of swap_input_mode over the keys just pressed.
SwapTarget(keys, mode) ==
    IF "Q" \in keys THEN "Fill"
    ELSE IF "W" \in keys THEN "CenterMark"
    ELSE IF "E" \in keys THEN "CornerMark"
    ELSE mode

\* swap_input_mode, with the set of mode keys just pressed
swap_input_mode ==
    \E keys \in SUBSET {"Q", "W", "E"} :
        /\ input_mode' = SwapTarget(keys, input_mode)
        /\ last' = LastOf("swap_input_mode", <<>>, <<>>, keys, selected)
        /\ UNCHANGED <<value, fixed, selected, fnVars, sideVars>>

\* input_mode_buttons, with the mode button whose Interaction became Clicked
input_mode_buttons ==
    \E button_input_mode \in InputMode :
        /\ input_mode' = button_input_mode
        /\ last' = LastOf("input_mode_buttons", <<>>, <<>>, {button_input_mode}, selected)
        /\ UNCHANGED <<value, fixed, selected, fnVars, sideVars>>

\* ------------------------------------------------------------ board spec
\* The clue grids: per cell, no clue (0) or a digit.
Clues == [Cells -> {0} \cup Digits]

\* spawn_board builds every cell Empty and not Fixed (CellBundle::new), then
\* the clues are filled in and marked Fixed (fill_puzzle); InputMode starts
\* at its default and nothing is selected.
Init ==
    /\ \E clue \in Clues :
        /\ value = [c \in Cells |-> IF clue[c] = 0 THEN Empty ELSE Filled(clue[c])]
        /\ fixed = [c \in Cells |-> clue[c] # 0]
    /\ selected = {}
    /\ input_mode = InputMode_default
    /\ last = LastOf("init", <<>>, <<>>, {}, {})
    /\ f_start = Empty
    /\ f_val = Empty
    /\ f_trace = <<>>
    /\ SideIdle

\* The systems of the logic/board.rs revision.
Next ==
    \/ handle_clicks
    \/ set_cell_value
    \/ erase_selected_cells
    \/ select_all
    \/ swap_input_mode
    \/ input_mode_buttons

Spec == Init /\ [][Next]_vars

\* The systems InteractionPlugin::build registers (input/mod.rs).
NextInteraction ==
    \/ actions_handle_clicks
    \/ actions_set_cell_value
    \/ erase_selected_cells
    \/ select_all
    \/ swap_input_mode
    \/ input_mode_buttons

SpecInteraction == Init /\ [][NextInteraction]_vars

\* -------------------------------------------------------- any-click spec
\* handle_clicks fed with any CellClick value: the target may be an entity of
\* the world that is not a cell (a text, a button).
OtherEntity == NumCells + 1

AnyCellClick ==
    [selected_cell : Cells \cup {NoCell, OtherEntity}, multi : BOOLEAN, drag : BOOLEAN]

AnyCellClickBatches == {<<ev>> : ev \in AnyCellClick}

\* cell_query.get(entity).expect(..): reached by a click without drag on
\* Some(entity), it panics when the query does not hold the entity.
ClickPanics(click_event) ==
    /\ click_event.selected_cell # NoCell
    /\ ~click_event.drag
    /\ click_event.selected_cell \notin Cells

\* logic::board::handle_clicks on any CellClick value
any_handle_clicks ==
    \E events \in AnyCellClickBatches :
        /\ ~panicked
        /\ IF \E e \in 1..Len(events) : ClickPanics(events[e])
           THEN panicked' = TRUE /\ selected' = selected
           ELSE /\ panicked' = FALSE
                /\ selected' = ApplyCommands(ClickLoop(events, 1, selected, value), 1, selected)
        /\ last' = LastOf("handle_clicks", <<>>, events, {}, selected)
        /\ UNCHANGED <<value, fixed, input_mode, fnVars, sqVars, tickVars, extraVars>>

NextAnyClick ==
    \/ any_handle_clicks
    \/ ~panicked /\ set_cell_value
    \/ ~panicked /\ erase_selected_cells
    \/ ~panicked /\ select_all
    \/ ~panicked /\ swap_input_mode
    \/ ~panicked /\ input_mode_buttons

SpecAnyClick == Init /\ [][NextAnyClick]_vars

\* ------------------------------------------------------------ value spec
\* The Value transitions exercised alone: a chain of at most FnMaxSteps
\* applications starting from any Value over FnDigits.
FnValues == ValuesOver(FnDigits)

\* One entry of f_trace: the function applied and its digit.
FnCall(fn, num) == [fn |-> fn, num |-> num]

FnBoardIdle ==
    /\ value = [c \in Cells |-> Empty]
    /\ fixed = [c \in Cells |-> FALSE]
    /\ selected = {}
    /\ input_mode = InputMode_default
    /\ last = LastOf("init", <<>>, <<>>, {}, {})

FnInit ==
    /\ FnBoardIdle
    /\ f_start \in FnValues
    /\ f_val = f_start
    /\ f_trace = <<>>
    /\ SideIdle

\* update_value_center applied directly (no cleanup)
FnUpdateCenter ==
    \E num \in FnDigits :
        /\ Len(f_trace) < FnMaxSteps
        /\ f_val' = update_value_center(f_val, num)
        /\ f_trace' = Append(f_trace, FnCall("update_value_center", num))
        /\ UNCHANGED <<f_start, boardVars, sideVars>>

\* update_value_corner applied directly (no cleanup)
FnUpdateCorner ==
    \E num \in FnDigits :
        /\ Len(f_trace) < FnMaxSteps
        /\ f_val' = update_value_corner(f_val, num)
        /\ f_trace' = Append(f_trace, FnCall("update_value_corner", num))
        /\ UNCHANGED <<f_start, boardVars, sideVars>>

\* The assignment of set_cell_value (logic/board.rs) to one cell's Value,
\* under each InputMode.
FnModeUpdate ==
    \E mode \in InputMode, num \in FnDigits :
        /\ Len(f_trace) < FnMaxSteps
        /\ f_val' = ModeUpdate(mode, f_val, num)
        /\ f_trace' = Append(f_trace, FnCall(mode, num))
        /\ UNCHANGED <<f_start, boardVars, sideVars>>

FnNext == FnUpdateCenter \/ FnUpdateCorner \/ FnModeUpdate

SpecValue == FnInit /\ [][FnNext]_vars

\* ----------------------------------------------------------- square spec
\* The grid is GridSize rows by GridSize columns (the spawn loops of
\* spawn_board); a square is WIDTH cells wide.
GridSize == 9
WIDTH == 3

\* The largest u8.
U8Max == 255

\* The values compute_square computes on its way, in u8 arithmetic: the two
\* subtractions, the two divisions, the product and the two sums.
compute_square_steps(row, column) ==
    LET major_row == (row - 1) \div WIDTH
        major_col == (column - 1) \div WIDTH
    IN {row - 1, column - 1, major_row, major_col, major_row * WIDTH,
        major_col + major_row * WIDTH, major_col + major_row * WIDTH + 1}

\* A square number that starts at 0.
compute_square_ZeroBased(row, column) ==
    LET major_row == (row - 1) \div WIDTH
        major_col == (column - 1) \div WIDTH
    IN major_col + major_row * WIDTH

\* A square number that counts the squares down the columns.
compute_square_ColumnMajor(row, column) ==
    LET major_row == (row - 1) \div WIDTH
        major_col == (column - 1) \div WIDTH
    IN major_row + major_col * WIDTH + 1

\* Coordinates::compute_square
compute_square(row, column) ==
    LET major_row == (row - 1) \div WIDTH
        major_col == (column - 1) \div WIDTH
    IN major_col + major_row * WIDTH + 1

\* The coordinates field of CellBundle::new
CellBundle_new(row, column) ==
    [row |-> row, column |-> column, square |-> compute_square(row, column)]

\* The board and the value chain at rest while the cells are spawned.
SqInit ==
    /\ FnBoardIdle
    /\ f_start = Empty
    /\ f_val = Empty
    /\ f_trace = <<>>
    /\ SideIdle

\* One pass of the inner loop of spawn_board: rows 1..=9 outside, columns
\* 1..=9 inside, a cell spawned from CellBundle::new(row, column).
spawn_cell ==
    LET i == Len(coordinates)
        row == (i \div GridSize) + 1
        column == (i % GridSize) + 1
    IN /\ i < GridSize * GridSize
       /\ coordinates' = Append(coordinates, CellBundle_new(row, column))
       /\ UNCHANGED <<sq_visited, panicked, tickVars, boardVars, fnVars, extraVars>>

\* A system that takes &Coordinates in a query (fill_puzzle,
\* cheat_at_sudoku) visits a cell; no system takes &mut Coordinates.
read_coordinates ==
    \E i \in 1..(GridSize * GridSize) :
        /\ Len(coordinates) = GridSize * GridSize
        /\ sq_visited' = i
        /\ UNCHANGED <<coordinates, panicked, tickVars, boardVars, fnVars, extraVars>>

SqNext == spawn_cell \/ read_coordinates

SpecSquare == SqInit /\ [][SqNext]_vars

\* ------------------------------------------------------------ frame spec
\* One frame of the Update stage: every system runs once, in an order the
\* executor picks among those that the labels of the plugins allow; the
\* Commands the systems queued are applied when the stage ends. The mouse
\* and the keyboard reach the systems as the Input resources of the frame.
\* The on-screen buttons are left out.
InputSet ==
    {"cell_click", "select_all", "cell_keyboard_input",
     "erase_selected_cells", "swap_input_mode"}

ActionSet == {"handle_clicks", "set_cell_value"}

RenderSet == {"color_selected", "update_cell_numbers", "style_numbers"}

Systems == {"index_cells"} \cup InputSet \cup ActionSet \cup RenderSet

\* A schedule whose Action set carries no .after(CommonLabels::Input).
Predecessors_ActionUnordered(system) ==
    IF system \in InputSet THEN {"index_cells"}
    ELSE IF system \in RenderSet THEN ActionSet
    ELSE {}

\* The systems that must have run before a system starts:
\* index_cells is .before(Input), the Action set is .after(Input), the
\* systems of BoardPlugin are .after(Action).
Predecessors(system) ==
    IF system \in InputSet THEN {"index_cells"}
    ELSE IF system \in ActionSet THEN InputSet
    ELSE IF system \in RenderSet THEN ActionSet
    ELSE {}

\* window.cursor_position() is None: the window has no cursor position
\* (the cursor is outside the window, or has not moved over it yet).
NoCursor == -1

\* The number of buttons and keys that are down or just pressed.
PressCount(inp) ==
    (IF inp.mouse = "up" THEN 0 ELSE 1) + (IF inp.ctrl THEN 1 ELSE 0)
        + (IF inp.shift THEN 1 ELSE 0)
        + Cardinality(inp.keys)

\* The frames' inputs, with at most MaxPressed buttons and keys at once.
TickInputs ==
    {inp \in [mouse : {"up", "just_pressed", "held"},
              cursor : Cells \cup {NoCell, NoCursor},
              ctrl : BOOLEAN,
              shift : BOOLEAN,
              keys : SUBSET KeyCodes] :
        /\ PressCount(inp) <= MaxPressed
        /\ inp.mouse = "up" => inp.cursor = NoCell}

JustPressed(kind) == Key(kind) \in t_in.keys

\* A frame starts: the Input resources are updated from the devices. The
\* left button is held only if it was down in the frame before.
begin_frame ==
    \E inp \in TickInputs :
        /\ ~panicked
        /\ t_phase = "settled"
        /\ ticks < MaxTicks
        /\ inp.mouse = "held" => mouse_down
        /\ inp.mouse = "just_pressed" => ~mouse_down
        /\ t_phase' = "run"
        /\ ticks' = ticks + 1
        /\ t_in' = inp
        /\ t_ran' = {}
        /\ mouse_down' = (inp.mouse # "up")
        /\ UNCHANGED <<cell_index, queueVars, shownVars, boardVars, fnVars, sqVars,
                     panicked, extraVars>>

\* The executor starts a system whose predecessors have all run.
Runs(system) ==
    /\ ~panicked
    /\ t_phase = "run"
    /\ system \notin t_ran
    /\ Predecessors(system) \subseteq t_ran
    /\ t_ran' = t_ran \cup {system}
    /\ UNCHANGED <<tickCtl, last, fixed, fnVars, sqVars, panicked, extraVars>>

\* index_cells: the cells whose Transform changed (all of them in the first
\* frame) get their bounding box stored.
frame_index_cells ==
    /\ Runs("index_cells")
    /\ cell_index' = Cells
    /\ UNCHANGED <<value, selected, input_mode, queueVars, shownVars>>

\* CellIndex::get for a cursor over cell c or over no cell
CellIndex_get(index, cursor) ==
    IF cursor \in index THEN cursor ELSE NoCell

\* The flags of the CellClick: multi when Shift or Control is pressed, drag
\* when the left button was not just pressed.
ClickFlags(inp) ==
    [multi |-> inp.shift \/ inp.ctrl, drag |-> inp.mouse # "just_pressed"]

\* cell_click with the left button pressed and no cursor position:
\* expect("Cursor position not found.") panics and no event is sent.
frame_cell_click_panics ==
    /\ ~panicked
    /\ t_phase = "run"
    /\ "cell_click" \notin t_ran
    /\ Predecessors("cell_click") \subseteq t_ran
    /\ t_in.mouse # "up"
    /\ t_in.cursor = NoCursor
    /\ panicked' = TRUE
    /\ UNCHANGED <<boardVars, fnVars, sqVars, tickVars, extraVars>>

\* cell_click
frame_cell_click ==
    /\ Runs("cell_click")
    /\ t_in.mouse # "up" => t_in.cursor # NoCursor
    /\ click_events' =
          IF t_in.mouse # "up"
          THEN Append(click_events,
                      [selected_cell |-> CellIndex_get(cell_index, t_in.cursor),
                       multi |-> ClickFlags(t_in).multi,
                       drag |-> ClickFlags(t_in).drag])
          ELSE click_events
    /\ UNCHANGED <<value, selected, input_mode, cell_index, input_events,
                   command_queue, shownVars>>

\* select_all
frame_select_all ==
    /\ Runs("select_all")
    /\ command_queue' =
          IF t_in.ctrl /\ JustPressed("A")
          THEN command_queue \o SelectAllCommands
          ELSE command_queue
    /\ UNCHANGED <<value, selected, input_mode, cell_index, click_events,
                   input_events, shownVars>>

\* cell_keyboard_input: one CellInput per digit key just pressed, in the
\* order the set of keys is iterated in.
frame_cell_keyboard_input ==
    \E keys \in IterOrders({k \in t_in.keys : k.kind \in {"Key", "Numpad"}}) :
        /\ Runs("cell_keyboard_input")
        /\ input_events' = input_events \o [i \in 1..Len(keys) |-> keys[i].num]
        /\ UNCHANGED <<value, selected, input_mode, cell_index, click_events,
                       command_queue, shownVars>>

\* A query that already sees the Commands queued in this stage.
QuerySelected_Eager(sel, queue) == ApplyCommands(queue, 1, sel)

\* The entities a Query<.., With<Selected>> yields: those that carry the
\* Selected component in the world, whatever Commands are queued.
QuerySelected(sel, queue) == sel

\* erase_selected_cells
frame_erase_selected_cells ==
    /\ Runs("erase_selected_cells")
    /\ value' =
          IF JustPressed("Delete")
          THEN [c \in Cells |->
                   IF c \in QuerySelected(selected, command_queue)
                   THEN EraseValue(fixed[c], value[c])
                   ELSE value[c]]
          ELSE value
    /\ UNCHANGED <<selected, input_mode, cell_index, queueVars, shownVars>>

\* swap_input_mode
frame_swap_input_mode ==
    /\ Runs("swap_input_mode")
    /\ input_mode' =
          SwapTarget({k \in {"Q", "W", "E"} : JustPressed(k)}, input_mode)
    /\ UNCHANGED <<value, selected, cell_index, queueVars, shownVars>>

\* logic::board::handle_clicks: it reads the Selected markers as they are in
\* the world and queues its changes.
frame_handle_clicks ==
    /\ Runs("handle_clicks")
    /\ command_queue' = command_queue \o ClickLoop(click_events, 1, selected, value)
    /\ click_events' = <<>>
    /\ UNCHANGED <<value, selected, input_mode, cell_index, input_events, shownVars>>

\* logic::board::set_cell_value
frame_set_cell_value ==
    \E order \in IterOrders(QuerySelected(selected, command_queue) \cap Cells) :
        /\ Runs("set_cell_value")
        /\ value' = EventLoop(value, fixed, order, input_mode, input_events, 1)
        /\ input_events' = <<>>
        /\ UNCHANGED <<selected, input_mode, cell_index, click_events,
                       command_queue, shownVars>>

\* color_selected
frame_color_selected ==
    /\ Runs("color_selected")
    /\ shown_sel' = {c \in Cells : c \in selected}
    /\ UNCHANGED <<value, selected, input_mode, cell_index, queueVars,
                   shown_val, shown_fixed>>

\* update_cell_numbers: the texts of the cells whose Value changed are
\* rewritten, which leaves every text written from the cell's Value.
frame_update_cell_numbers ==
    /\ Runs("update_cell_numbers")
    /\ shown_val' = value
    /\ UNCHANGED <<value, selected, input_mode, cell_index, queueVars,
                   shown_sel, shown_fixed>>

\* style_numbers
frame_style_numbers ==
    /\ Runs("style_numbers")
    /\ shown_fixed' = fixed
    /\ UNCHANGED <<value, selected, input_mode, cell_index, queueVars,
                   shown_sel, shown_val>>

\* The stage ends once every system ran: the queued Commands are applied.
end_of_stage ==
    /\ ~panicked
    /\ t_phase = "run"
    /\ t_ran = Systems
    /\ selected' = ApplyCommands(command_queue, 1, selected)
    /\ command_queue' = <<>>
    /\ t_phase' = "settled"
    /\ t_in' = NoInput
    /\ UNCHANGED <<ticks, t_ran, mouse_down, cell_index, click_events,
                   input_events, shownVars, value, fixed, input_mode, last,
                   fnVars, sqVars, panicked, extraVars>>

NextFrame ==
    \/ begin_frame
    \/ frame_index_cells
    \/ frame_cell_click
    \/ frame_cell_click_panics
    \/ frame_select_all
    \/ frame_cell_keyboard_input
    \/ frame_erase_selected_cells
    \/ frame_swap_input_mode
    \/ frame_handle_clicks
    \/ frame_set_cell_value
    \/ frame_color_selected
    \/ frame_update_cell_numbers
    \/ frame_style_numbers
    \/ end_of_stage

SpecFrame == Init /\ [][NextFrame]_vars

\* ------------------------------------------------------------ index spec
\* The cell index over the sprites of the 81 cells (main.rs geometry), all
\* lengths in pixels; every length of the layout is a multiple of half a
\* cell, so the f32 arithmetic is exact and integers stand for it.
CELL_SIZE == 50
GRID_SIZE == GridSize * CELL_SIZE
GRID_CENTER_X == 0
GRID_LEFT_EDGE == GRID_CENTER_X - (GRID_SIZE \div 2)
GRID_CENTER_Y == 0
GRID_BOT_EDGE == GRID_CENTER_Y - (GRID_SIZE \div 2)

Vec2(x, y) == [x |-> x, y |-> y]

\* The entities of the cells, in the order spawn_cells spawns them.
CellEntities == 1..(GridSize * GridSize)

EntityRow(entity) == ((entity - 1) \div GridSize) + 1

EntityColumn(entity) == ((entity - 1) % GridSize) + 1

\* The translation CellBundle::new gives the sprite of a cell.
CellBundle_transform(row, column) ==
    Vec2(GRID_LEFT_EDGE + CELL_SIZE * row - (CELL_SIZE \div 2),
         GRID_BOT_EDGE + CELL_SIZE * column - (CELL_SIZE \div 2))

\* The size CellBundle::new gives the sprite of a cell.
CellBundle_sprite_size == Vec2(CELL_SIZE, CELL_SIZE)

\* The BoundingBox index_cells stores for a sprite.
BoundingBox(center, size) ==
    [bottom_left |-> Vec2(center.x - (size.x \div 2), center.y - (size.y \div 2)),
     top_right |-> Vec2(center.x + (size.x \div 2), center.y + (size.y \div 2))]

\* A test that leaves the edges of the box out.
InBounds_Exclusive(position, bounding_box) ==
    /\ position.x > bounding_box.bottom_left.x
    /\ position.y > bounding_box.bottom_left.y
    /\ position.x < bounding_box.top_right.x
    /\ position.y < bounding_box.top_right.y

\* in_bounds.all() of CellIndex::get: cmpge on bottom_left, cmple on top_right
InBounds(position, bounding_box) ==
    /\ position.x >= bounding_box.bottom_left.x
    /\ position.y >= bounding_box.bottom_left.y
    /\ position.x <= bounding_box.top_right.x
    /\ position.y <= bounding_box.top_right.y

\* CellIndex::get, with the order in which the HashMap yields its entries
RECURSIVE CellIndex_get_iter(_, _, _, _)
CellIndex_get_iter(map, order, i, position) ==
    IF i > Len(order) THEN NoCell
    ELSE IF InBounds(position, map[order[i]]) THEN order[i]
    ELSE CellIndex_get_iter(map, order, i + 1, position)

\* Orders a HashMap of n entries may be iterated in: the n rotations of the
\* ascending order and of the descending order (any entry can come first).
ScanOrders(n) ==
    IF n = 0 THEN {<<>>}
    ELSE {[i \in 1..n |-> ((i - 1 + k) % n) + 1] : k \in 0..(n - 1)}
         \cup {[i \in 1..n |-> n - ((i - 1 + k) % n)] : k \in 0..(n - 1)}

\* The positions looked up: the half-cell lattice over the grid and one
\* half cell around it (cell centres, edges, corners, outside points).
SampleOffsets == {k * (CELL_SIZE \div 2) : k \in 0..(2 * GridSize + 2)}

SamplePoints ==
    {Vec2(GRID_LEFT_EDGE - (CELL_SIZE \div 2) + dx,
          GRID_BOT_EDGE - (CELL_SIZE \div 2) + dy) :
        dx \in SampleOffsets, dy \in SampleOffsets}

\* index_cells in the first frame: every cell's Transform is new. Results of
\* earlier calls of get say nothing about the new index and are dropped.
ix_index_cells ==
    /\ cell_map = <<>>
    /\ cell_map' =
          [entity \in CellEntities |->
              BoundingBox(CellBundle_transform(EntityRow(entity), EntityColumn(entity)),
                          CellBundle_sprite_size)]
    /\ ix_point' = Vec2(0, 0)
    /\ ix_result' = [called |-> FALSE, entity |-> NoCell]
    /\ UNCHANGED <<pzVars, boardVars, fnVars, sqVars, panicked, tickVars>>

\* cell_click calls cell_index.get(cursor_position_world). A call reads
\* nothing that an earlier call wrote: one call per state of the index.
ix_get ==
    /\ ~ix_result.called
    /\ \E position \in SamplePoints, order \in ScanOrders(Len(cell_map)) :
          /\ ix_point' = position
          /\ ix_result' = [called |-> TRUE,
                           entity |-> CellIndex_get_iter(cell_map, order, 1, position)]
    /\ UNCHANGED <<cell_map, pzVars, boardVars, fnVars, sqVars, panicked, tickVars>>

IxNext == ix_index_cells \/ ix_get

SpecIndex == SqInit /\ [][IxNext]_vars

\* ----------------------------------------------------------- puzzle spec
\* The puzzle of the game: generate_sudoku stores the clues and the solution
\* as resources, fill_puzzle seeds the spawned cells from the clues, and
\* cheat_at_sudoku writes the solution. The board is the first NumCells
\* cells that spawn_cells spawns, a Sudoku is the sequence of their values
\* (0 for None).
Sudokus == [Cells -> Digits]

\* Sudoku::generate_unique_from(completed): clues are removed
CluesOf(completed) ==
    {initial \in [Cells -> {0} \cup Digits] :
        \A c \in Cells : initial[c] \in {0, completed[c]}}

\* Value(val) for a val: Option<u8>
Value_of(val) == IF val = 0 THEN Empty ELSE Filled(val)

\* The Coordinates component of a cell entity
Coordinates_of(entity) == CellBundle_new(EntityRow(entity), EntityColumn(entity))

\* map.insert(coordinates, value) on a HashMap held as its set of entries
HashMap_insert(map, key, val) ==
    {e \in map : e.key # key} \cup {[key |-> key, val |-> val]}

\* map.get(coordinates).unwrap()
HashMap_get(map, key) == (CHOOSE e \in map : e.key = key).val

\* The column at which the loop of parse_sudoku starts a new row.
ParseWrap == 10

\* The Coordinates parse_sudoku builds for a row and a column
parse_coordinates(row, column) ==
    [row |-> row, column |-> column, square |-> compute_square(row, column)]

\* The loop of parse_sudoku over sudoku.iter(): the column is advanced, a
\* column of ParseWrap starts the next row, and the value is inserted. The
\* map is computed at every turn (the test on inserted), not carried as an
\* unevaluated expression through the whole loop.
RECURSIVE parse_sudoku_loop(_, _, _, _, _)
parse_sudoku_loop(sudoku, i, row, column, map) ==
    IF i > Len(sudoku) THEN map
    ELSE LET wrap == column + 1 = ParseWrap
             row2 == IF wrap THEN row + 1 ELSE row
             column2 == IF wrap THEN 1 ELSE column + 1
             inserted == HashMap_insert(map, parse_coordinates(row2, column2),
                                        Value_of(sudoku[i]))
         IN IF inserted = {} THEN inserted
            ELSE parse_sudoku_loop(sudoku, i + 1, row2, column2, inserted)

\* parse_sudoku
parse_sudoku(sudoku) == parse_sudoku_loop(sudoku, 1, 1, 0, {})

\* After the Startup stage: generate_sudoku stored both resources and
\* spawn_cells spawned the cells Empty and not Fixed; fill_puzzle has not
\* run yet.
PzInit ==
    /\ value = [c \in Cells |-> Empty]
    /\ fixed = [c \in Cells |-> FALSE]
    /\ selected = {}
    /\ input_mode = InputMode_default
    /\ last = LastOf("init", <<>>, <<>>, {}, {})
    /\ f_start = Empty /\ f_val = Empty /\ f_trace = <<>>
    /\ coordinates = <<>> /\ sq_visited = 0
    /\ panicked = FALSE
    /\ TickIdle
    /\ cell_map = <<>>
    /\ ix_point = [x |-> 0, y |-> 0]
    /\ ix_result = [called |-> FALSE, entity |-> NoCell]
    /\ \E completed \in Sudokus : \E initial \in CluesOf(completed) :
          /\ initial_puzzle = parse_sudoku(initial)
          /\ complete_puzzle = parse_sudoku(completed)
    /\ pz_filled = FALSE

\* A fill that marks every cell Fixed.
fill_puzzle_cell_AllFixed(initial_value, old_value, old_fixed) ==
    IF initial_value # Empty THEN [value |-> initial_value, fixed |-> TRUE]
    ELSE [value |-> old_value, fixed |-> TRUE]

\* The body of the loop of fill_puzzle for one cell
fill_puzzle_cell(initial_value, old_value, old_fixed) ==
    IF initial_value # Empty THEN [value |-> initial_value, fixed |-> TRUE]
    ELSE [value |-> old_value, fixed |-> old_fixed]

\* fill_puzzle, in the PostStartup stage
fill_puzzle ==
    /\ ~pz_filled
    /\ LET filled == [c \in Cells |->
                        fill_puzzle_cell(HashMap_get(initial_puzzle, Coordinates_of(c)),
                                         value[c], fixed[c])]
       IN /\ value' = [c \in Cells |-> filled[c].value]
          /\ fixed' = [c \in Cells |-> filled[c].fixed]
    /\ pz_filled' = TRUE
    /\ last' = LastOf("fill_puzzle", <<>>, <<>>, {}, selected)
    /\ UNCHANGED <<selected, input_mode, initial_puzzle, complete_puzzle,
                   fnVars, sqVars, panicked, tickVars, ixVars>>

\* A cheat that writes the clues.
cheat_value_FromClues(initial, complete, coordinates_) ==
    HashMap_get(initial, coordinates_)

\* The body of the loop of cheat_at_sudoku for one cell
cheat_value(initial, complete, coordinates_) ==
    HashMap_get(complete, coordinates_)

\* cheat_at_sudoku, when Space was just pressed
cheat_at_sudoku ==
    /\ pz_filled
    /\ value' = [c \in Cells |->
                    cheat_value(initial_puzzle, complete_puzzle, Coordinates_of(c))]
    /\ last' = LastOf("cheat_at_sudoku", <<>>, <<>>, {}, selected)
    /\ UNCHANGED <<fixed, selected, input_mode, fnVars, sideVars>>

\* The handlers of the NewPuzzle and ResetPuzzle events that puzzle_button
\* sends (input/buttons.rs) are described by the specification only: they
\* re-seed every cell from the clue grid and clear the selection.

\* A re-seed that keeps what the player wrote into the other cells.
reseed_cell_KeepPlayerValue(initial_value, old_value) ==
    IF initial_value # Empty THEN [value |-> initial_value, fixed |-> TRUE]
    ELSE [value |-> old_value, fixed |-> FALSE]

\* The re-seed of one cell from its clue
reseed_cell(initial_value, old_value) ==
    [value |-> initial_value, fixed |-> initial_value # Empty]

\* The re-seed of the board from a clue grid
reseed(initial, op) ==
    /\ LET seeded == [c \in Cells |->
                        reseed_cell(HashMap_get(initial, Coordinates_of(c)), value[c])]
       IN /\ value' = [c \in Cells |-> seeded[c].value]
          /\ fixed' = [c \in Cells |-> seeded[c].fixed]
    /\ selected' = {}
    /\ last' = LastOf(op, <<>>, <<>>, {}, selected)

\* The NewPuzzle trigger: a fresh clue/solution pair, then the re-seed
new_puzzle ==
    /\ pz_filled
    /\ \E completed \in Sudokus : \E initial \in CluesOf(completed) :
          /\ initial_puzzle' = parse_sudoku(initial)
          /\ complete_puzzle' = parse_sudoku(completed)
          /\ reseed(initial_puzzle', "new_puzzle")
    /\ UNCHANGED <<input_mode, pz_filled, fnVars, sqVars, panicked, tickVars, ixVars>>

\* The ResetPuzzle trigger: the re-seed from the current clues
reset_puzzle ==
    /\ pz_filled
    /\ reseed(initial_puzzle, "reset_puzzle")
    /\ UNCHANGED <<input_mode, fnVars, sideVars>>

\* The game once the puzzle is seeded: the player's operations, the cheat
\* and the two puzzle triggers.
NextPuzzle ==
    \/ fill_puzzle
    \/ pz_filled /\ handle_clicks
    \/ pz_filled /\ set_cell_value
    \/ pz_filled /\ erase_selected_cells
    \/ pz_filled /\ select_all
    \/ pz_filled /\ swap_input_mode
    \/ pz_filled /\ input_mode_buttons
    \/ cheat_at_sudoku
    \/ new_puzzle
    \/ reset_puzzle

SpecPuzzle == PzInit /\ [][NextPuzzle]_vars

\* ------------------------------------------------------------ batch spec
\* handle_clicks as a handler of whatever its EventReader holds: the loop
\* over cell_click_events.iter() takes a batch of any length.
ClickBatches == UNION {[1..n -> CellClick] : n \in 1..MaxBatch}

\* logic::board::handle_clicks on a batch of events
batch_handle_clicks ==
    \E events \in ClickBatches :
        /\ selected' = ApplyCommands(ClickLoop(events, 1, selected, value), 1, selected)
        /\ last' = LastOf("handle_clicks", <<>>, events, {}, selected)
        /\ UNCHANGED <<value, fixed, input_mode, fnVars, sideVars>>

NextBatch == batch_handle_clicks

SpecBatch == Init /\ [][NextBatch]_vars

\* ================================================================ claims
\* The transitions as the specification words them, written apart from the
\* model of the code so that the two can disagree.
Claim_toggle(marks, d) == IF d \in marks THEN marks \ {d} ELSE marks \cup {d}

Claim_normalize(v) ==
    IF v.tag = "Marked" /\ v.center = {} /\ v.corner = {} THEN Empty ELSE v

Claim_apply_fill(old, d) ==
    IF old.tag = "Filled" /\ old.num = d THEN Empty ELSE Filled(d)

Claim_apply_center_mark(old, d) ==
    Claim_normalize(IF old.tag = "Marked"
                    THEN Marked(Claim_toggle(old.center, d), old.corner)
                    ELSE Marked({d}, {}))

Claim_apply_corner_mark(old, d) ==
    Claim_normalize(IF old.tag = "Marked"
                    THEN Marked(old.center, Claim_toggle(old.corner, d))
                    ELSE Marked({}, {d}))

Claim_transition(mode, old, d) ==
    CASE mode = "Fill"       -> Claim_apply_fill(old, d)
      [] mode = "CenterMark" -> Claim_apply_center_mark(old, d)
      [] mode = "CornerMark" -> Claim_apply_corner_mark(old, d)

\* The transition of `mode` applied once per digit of nums, in order.
RECURSIVE Claim_transitions(_, _, _, _)
Claim_transitions(mode, old, nums, i) ==
    IF i > Len(nums) THEN old
    ELSE Claim_transitions(mode, Claim_transition(mode, old, nums[i]), nums, i + 1)

\* The player's inputs: clicks, select-all, digit input, erase, mode switches.
PlayerOps ==
    {"handle_clicks", "select_all", "set_cell_value", "erase_selected_cells",
     "swap_input_mode", "input_mode_buttons"}

\* The one click event read by the last run of handle_clicks.
LastClick == last.clicks[1]

IsClick == last.op = "handle_clicks" /\ Len(last.clicks) = 1

IsSingleClickOn(c) ==
    /\ IsClick
    /\ LastClick.selected_cell = c
    /\ ~LastClick.multi
    /\ ~LastClick.drag

\* C1: no player input (click, select-all, digit input in any mode, erase,
\* mode switch) changes the Value of a cell whose Fixed flag is true, whether
\* or not the cell is selected.
C1_FixedValueKept ==
    [][last'.op \in PlayerOps =>
          \A c \in Cells : fixed[c] => value'[c] = value[c]]_vars

\* C1 witness: a Fixed cell is the selection and a digit was just entered in
\* Fill mode.
C1_Witness ==
    /\ last.op = "set_cell_value"
    /\ input_mode = "Fill"
    /\ \E c \in Cells : selected = {c} /\ fixed[c] /\ last.sel = {c}

\* C2 (as claimed): one digit input on a selection holding a Fixed and a
\* non-Fixed cell applies the mode's transition to every selected non-Fixed
\* cell, whatever the order the cells are visited in.
C2_OnlyFixedSkipped ==
    [][(/\ last'.op = "set_cell_value"
        /\ Len(last'.nums) = 1
        /\ \E c \in selected : fixed[c]
        /\ \E c \in selected : ~fixed[c])
       => \A c \in selected :
             ~fixed[c] => value'[c] = Claim_transition(input_mode, value[c], last'.nums[1])]_vars

\* C3 (as claimed): no cell's Value is ever Marked with both mark sets empty.
C3_NoEmptyMarked ==
    \A c \in Cells : ~(value[c].tag = "Marked" /\ value[c].center = {} /\ value[c].corner = {})

\* C4: a run of set_cell_value on a selection without a Fixed cell gives
\* every selected cell the current mode's transition of its old Value, once
\* per digit read, and leaves the unselected cells' Values, the Fixed flags
\* and the selection as they were.
C4_DigitInput ==
    [][(last'.op = "set_cell_value" /\ \A c \in selected : ~fixed[c])
       => /\ \A c \in Cells :
                value'[c] = IF c \in selected
                            THEN Claim_transitions(input_mode, value[c], last'.nums, 1)
                            ELSE value[c]
          /\ fixed' = fixed
          /\ selected' = selected]_vars

\* C4 witness: one digit was entered in CenterMark mode on a non-empty
\* selection without a Fixed cell, beside an unselected cell.
C4_Witness ==
    /\ last.op = "set_cell_value"
    /\ Len(last.nums) = 1
    /\ input_mode = "CenterMark"
    /\ selected # {} /\ selected # Cells
    /\ \A c \in selected : ~fixed[c] /\ value[c] = Marked({last.nums[1]}, {})

\* C5: update_value_fill maps Empty and every Marked value to Filled(d),
\* Filled(d) to Empty and Filled(d2), d2 # d, to Filled(d); so from Empty,
\* d then d gives Empty and d then d2 gives Filled(d2).
C5_FillTransition ==
    \A d \in FnDigits :
        /\ f_trace = <<FnCall("Fill", d)>> =>
              /\ f_start = Empty => f_val = Filled(d)
              /\ f_start.tag = "Marked" => f_val = Filled(d)
              /\ f_start = Filled(d) => f_val = Empty
              /\ \A d2 \in FnDigits \ {d} : f_start = Filled(d2) => f_val = Filled(d)
        /\ (f_start = Empty /\ f_trace = <<FnCall("Fill", d), FnCall("Fill", d)>>)
              => f_val = Empty
        /\ \A d2 \in FnDigits \ {d} :
              (f_start = Empty /\ f_trace = <<FnCall("Fill", d), FnCall("Fill", d2)>>)
                 => f_val = Filled(d2)

\* C5 witness: from Empty, fill 1 then fill 2 was applied.
C5_Witness ==
    /\ f_start = Empty
    /\ f_trace = <<FnCall("Fill", 1), FnCall("Fill", 2)>>
    /\ f_val = Filled(2)

\* C6: update_value_center maps Empty and Filled(x) to Marked({d}, {}) and
\* Marked(c, k) to Marked(c with d toggled, k); update_value_corner mirrors
\* it on the corner set and leaves the center set alone.
C6_MarkTransitions ==
    \A d \in FnDigits :
        /\ f_trace = <<FnCall("update_value_center", d)>> =>
              /\ f_start.tag \in {"Empty", "Filled"} => f_val = Marked({d}, {})
              /\ f_start.tag = "Marked" =>
                    f_val = Marked(Claim_toggle(f_start.center, d), f_start.corner)
        /\ f_trace = <<FnCall("update_value_corner", d)>> =>
              /\ f_start.tag \in {"Empty", "Filled"} => f_val = Marked({}, {d})
              /\ f_start.tag = "Marked" =>
                    f_val = Marked(f_start.center, Claim_toggle(f_start.corner, d))

\* C6 witness: update_value_center removed 1 from the center marks of
\* Marked({1}, {2}) and kept the corner marks.
C6_Witness ==
    /\ f_start = Marked({1}, {2})
    /\ f_trace = <<FnCall("update_value_center", 1)>>
    /\ f_val = Marked({}, {2})

\* C7: the CenterMark assignment of set_cell_value applied twice with the
\* same digit to an Empty value gives Empty again.
C7_CenterMarkRoundTrip ==
    \A d \in FnDigits :
        (f_start = Empty
         /\ f_trace = <<FnCall("CenterMark", d), FnCall("CenterMark", d)>>)
           => f_val = Empty

\* C7 witness: from Empty, center mark 2 was toggled on and off.
C7_Witness ==
    /\ f_start = Empty
    /\ f_trace = <<FnCall("CenterMark", 2), FnCall("CenterMark", 2)>>
    /\ f_val = Empty

\* C8: after a click event without a target no cell is selected, whatever
\* the selection before and whatever its multi and drag flags.
C8_ClickOutsideClears ==
    (IsClick /\ LastClick.selected_cell = NoCell) => selected = {}

\* C8 witness: every cell was selected and a click without a target, with
\* multi and drag set, was handled.
C8_Witness ==
    /\ IsClick
    /\ LastClick = [selected_cell |-> NoCell, multi |-> TRUE, drag |-> TRUE]
    /\ last.sel = Cells
    /\ selected = {}

\* C9: a plain click (no drag, no multi) on a cell that is selected while at
\* most one cell is selected leaves selected exactly the cells whose Value
\* has the clicked cell's tag, digit and both mark sets.
C9_MatchSelect ==
    \A c \in Cells :
        (IsSingleClickOn(c) /\ c \in last.sel /\ Cardinality(last.sel) <= 1)
          => selected = {x \in Cells :
                            /\ value[x].tag = value[c].tag
                            /\ value[x].num = value[c].num
                            /\ value[x].center = value[c].center
                            /\ value[x].corner = value[c].corner}

\* C9 witness: the lone selected Filled(1) cell was clicked; another
\* Filled(1) cell is now selected with it, a cell marked with 1 is not.
C9_Witness ==
    \E c, x, y \in Cells :
        /\ IsSingleClickOn(c) /\ last.sel = {c}
        /\ x # c
        /\ value[c] = Filled(1) /\ value[x] = Filled(1)
        /\ value[y].tag = "Marked" /\ 1 \in value[y].center
        /\ selected = {c, x}

\* C10: a plain click on a cell that is unselected, or selected together
\* with another cell, leaves exactly that cell selected.
C10_SingleSelect ==
    \A c \in Cells :
        (IsSingleClickOn(c) /\ (c \notin last.sel \/ Cardinality(last.sel) >= 2))
          => selected = {c}

\* C10 witness: the clicked cell was selected together with a cell of the
\* same Value, and is now the only selected cell.
C10_Witness ==
    \E c, x \in Cells :
        /\ IsSingleClickOn(c)
        /\ x # c /\ last.sel = {c, x}
        /\ value[x] = value[c]
        /\ selected = {c}

\* The last click was a click on cell c with the given multi and drag flags.
IsClickOn(c, multi, drag) ==
    /\ IsClick
    /\ LastClick = [selected_cell |-> c, multi |-> multi, drag |-> drag]

\* C11: a click without drag and with multi on a cell toggles that cell's
\* membership in the selection and changes no other cell's.
C11_MultiToggle ==
    \A c \in Cells :
        IsClickOn(c, TRUE, FALSE) =>
            /\ c \in selected <=> c \notin last.sel
            /\ \A x \in Cells \ {c} : x \in selected <=> x \in last.sel

\* C11 witness: a multi click unselected one of two selected cells.
C11_Witness ==
    \E c, x \in Cells :
        /\ IsClickOn(c, TRUE, FALSE)
        /\ x # c /\ last.sel = {c, x}
        /\ selected = {x}

\* C12: a drag click on a cell leaves the previous selection plus that cell
\* selected, with or without multi.
C12_DragAdds ==
    \A c \in Cells, multi \in BOOLEAN :
        IsClickOn(c, multi, TRUE) => selected = last.sel \cup {c}

\* C12 witness: a drag click without multi added a cell to a selection of
\* one other cell.
C12_Witness ==
    \E c, x \in Cells :
        /\ IsClickOn(c, FALSE, TRUE)
        /\ x # c /\ last.sel = {x}
        /\ selected = {c, x}

\* The inputs that switch the input mode: the Q, W, E keys and the buttons.
ModeOps == {"swap_input_mode", "input_mode_buttons"}

\* C13: erase sets the Value of every selected non-Fixed cell to Empty,
\* whatever the input mode and the old Value, and leaves the Values of Fixed
\* and of unselected cells, the Fixed flags and the selection unchanged.
C13_Erase ==
    [][last'.op = "erase_selected_cells" =>
          /\ \A c \in Cells :
                value'[c] = IF c \in selected /\ ~fixed[c] THEN Empty ELSE value[c]
          /\ fixed' = fixed
          /\ selected' = selected]_vars

\* C13 witness: erase ran in a marking mode on a selection of two non-Fixed
\* cells, with a marked cell left unselected.
C13_Witness ==
    /\ last.op = "erase_selected_cells"
    /\ input_mode # "Fill"
    /\ \E c, x \in Cells :
          /\ c # x /\ selected = {c, x}
          /\ ~fixed[c] /\ ~fixed[x]
          /\ value[c] = Empty /\ value[x] = Empty
    /\ \E y \in Cells \ selected : value[y].tag = "Marked"

\* C14: select-all leaves every cell selected, the Fixed cells included, and
\* changes no cell's Value.
C14_SelectAll ==
    [][last'.op = "select_all" =>
          /\ selected' = Cells
          /\ value' = value
          /\ fixed' = fixed]_vars

\* C14 witness: select-all ran on a grid with a Fixed cell and a selection of
\* one cell.
C14_Witness ==
    /\ last.op = "select_all"
    /\ Cardinality(last.sel) = 1
    /\ \E c \in selected : fixed[c]
    /\ \E c \in selected : value[c].tag = "Marked"

\* C15: the input mode is Fill at start and only a mode switch (keys or
\* buttons) changes it: a click, select-all, a digit input and an erase leave
\* it as it was.
C15_ModeOnlyBySwitch ==
    /\ input_mode = "Fill"
    /\ [][last'.op \notin ModeOps => input_mode' = input_mode]_vars

\* C15 witness: a digit was entered while the mode was CornerMark.
C15_Witness ==
    /\ last.op = "set_cell_value"
    /\ input_mode = "CornerMark"
    /\ \E c \in selected : value[c].tag = "Marked"

\* C16: a mode switch changes only the input mode: every Value, every Fixed
\* flag and the selection stay as they were; and a digit input applies the
\* transition of the mode in force when it runs.
C16_SwitchOnlyMode ==
    [][/\ last'.op \in ModeOps =>
            value' = value /\ fixed' = fixed /\ selected' = selected
       /\ (last'.op = "set_cell_value" /\ \A c \in selected : ~fixed[c]) =>
            \A c \in selected :
                value'[c] = Claim_transitions(input_mode, value[c], last'.nums, 1)]_vars

\* C16 witness: the mode was just switched to CenterMark by key while a
\* selected cell holds a filled digit.
C16_Witness ==
    /\ last.op = "swap_input_mode"
    /\ input_mode = "CenterMark"
    /\ \E c \in selected : ~fixed[c] /\ value[c].tag = "Filled"

\* C20 (as claimed): every spawned cell's square is
\* floor((row - 1) / 3) + 3 * floor((column - 1) / 3) + 1.
C20_SquareAsClaimed ==
    \A i \in 1..Len(coordinates) :
        LET co == coordinates[i]
        IN co.square = ((co.row - 1) \div 3) + 3 * ((co.column - 1) \div 3) + 1

\* C20 (amended): every spawned cell's square is
\* 3 * floor((row - 1) / 3) + floor((column - 1) / 3) + 1, set when the cell
\* is created and the same in every later state.
C20_Square ==
    [][\A i \in 1..Len(coordinates') :
          LET co == coordinates'[i]
          IN /\ co.square = 3 * ((co.row - 1) \div 3) + ((co.column - 1) \div 3) + 1
             /\ i <= Len(coordinates) => co = coordinates[i]]_vars

\* C20 witness: the whole grid is spawned, the cell of row 1, column 4 is in
\* square 2, and a system has read the coordinates of a cell of square 7.
C20_Witness ==
    /\ Len(coordinates) = 81
    /\ \E i \in 1..81 :
          coordinates[i] = [row |-> 1, column |-> 4, square |-> 2]
    /\ sq_visited > 0
    /\ coordinates[sq_visited].square = 7
    /\ coordinates[sq_visited].row = 9

Ran(system) == system \in t_ran

\* The part of the claimed order that the labels enforce: index_cells before
\* cell_click, cell_click before handle_clicks and before set_cell_value.
LabelledOrder ==
    /\ Ran("cell_click") => Ran("index_cells")
    /\ Ran("handle_clicks") => Ran("cell_click")
    /\ Ran("set_cell_value") => Ran("cell_click")

\* C17 (as claimed): in every frame the index rebuild is complete before
\* click resolution, and click resolution is complete before any selection
\* mutation and before any Value mutation, by digit input or by erase.
C17_OrderAsClaimed ==
    t_phase = "run" =>
        /\ LabelledOrder
        /\ selected # ApplyCommands(command_queue, 1, selected) => Ran("cell_click")
        /\ (Ran("erase_selected_cells") /\ JustPressed("Delete")) => Ran("cell_click")

\* C17 (amended): in every frame the index rebuild is complete before click
\* resolution (the click resolves against the rebuilt index), and click
\* resolution is complete before handle_clicks and set_cell_value run, which
\* read every event sent in the frame.
C17_Order ==
    t_phase = "run" =>
        /\ LabelledOrder
        /\ \A i \in 1..Len(click_events) : click_events[i].selected_cell = t_in.cursor
        /\ Ran("handle_clicks") => click_events = <<>>
        /\ Ran("set_cell_value") => input_events = <<>>

\* C17 witness: in the first frame, with the button just pressed over a cell
\* and a digit key just pressed, all of index_cells, cell_click,
\* handle_clicks and set_cell_value ran and the click's command is queued.
C17_Witness ==
    /\ t_phase = "run"
    /\ ticks = 1
    /\ t_in.mouse = "just_pressed" /\ t_in.cursor \in Cells
    /\ \E k \in t_in.keys : k.kind = "Key"
    /\ {"index_cells", "cell_click", "handle_clicks", "set_cell_value"} \subseteq t_ran
    /\ command_queue # <<>>
    /\ command_queue[Len(command_queue)] = InsertSelected(t_in.cursor)

\* C18 (as claimed): what the rendering systems drew in a frame is the
\* state the frame's mutations leave: the cells drawn as selected are the
\* selected cells, each text shows the cell's Value, each font its Fixed flag.
C18_RenderAfterMutations ==
    (t_phase = "settled" /\ ticks > 0) =>
        /\ shown_sel = selected
        /\ shown_val = value
        /\ shown_fixed = fixed

\* C21: for every (row, column) pair of the grid, compute_square returns
\* 3 * floor((row - 1) / 3) + floor((column - 1) / 3) + 1, a value of 1..9,
\* with every intermediate value inside u8; row 4, column 5 is in square 5;
\* and each square of the full grid holds exactly 9 cells.
C21_StandardSquare ==
    /\ \A i \in 1..Len(coordinates) :
          LET co == coordinates[i]
          IN /\ co.row = ((i - 1) \div 9) + 1
             /\ co.column = ((i - 1) % 9) + 1
             /\ co.square \in 1..9
             /\ co.square = 3 * ((co.row - 1) \div 3) + ((co.column - 1) \div 3) + 1
             /\ compute_square_steps(co.row, co.column) \subseteq 0..U8Max
             /\ (co.row = 4 /\ co.column = 5) => co.square = 5
    /\ Len(coordinates) = 81 =>
          \A sq \in 1..9 :
              Cardinality({i \in 1..81 : coordinates[i].square = sq}) = 9

\* C21 witness: the whole grid is spawned and the cell of row 4, column 5
\* carries square 5.
C21_Witness ==
    /\ Len(coordinates) = 81
    /\ coordinates[32] = [row |-> 4, column |-> 5, square |-> 5]

\* The box contains the point on both axes, its edges included.
Claim_contains(box, point) ==
    /\ box.bottom_left.x <= point.x /\ point.x <= box.top_right.x
    /\ box.bottom_left.y <= point.y /\ point.y <= box.top_right.y

\* The indexed cells whose box contains the point looked up last.
Containing == {e \in DOMAIN cell_map : Claim_contains(cell_map[e], ix_point)}

\* C22: a lookup returns a cell only if that cell's indexed box contains the
\* point with inclusive bounds, and returns none exactly when no indexed box
\* contains the point.
C22_Lookup ==
    ix_result.called =>
        /\ ix_result.entity # NoCell => ix_result.entity \in Containing
        /\ ix_result.entity = NoCell <=> Containing = {}

\* C22 witness: a lookup of the top right corner of an indexed box returned
\* that box's cell.
C22_Witness ==
    /\ ix_result.called
    /\ ix_result.entity # NoCell
    /\ cell_map[ix_result.entity].top_right = ix_point

\* C23 (as claimed): the point looked up lies in at most one indexed box, so
\* the result is the same in whatever order the boxes are scanned.
C23_NoOverlap ==
    ix_result.called =>
        /\ Cardinality(Containing) <= 1
        /\ \A order \in ScanOrders(Len(cell_map)) :
              CellIndex_get_iter(cell_map, order, 1, ix_point) = ix_result.entity

\* The clue of a cell, read off the clue grid by the cell's row and column.
Claim_clue(c) ==
    LET e == CHOOSE e \in initial_puzzle :
                 e.key.row = EntityRow(c) /\ e.key.column = EntityColumn(c)
    IN e.val

\* The solution's value of a cell.
Claim_solution(c) ==
    LET e == CHOOSE e \in complete_puzzle :
                 e.key.row = EntityRow(c) /\ e.key.column = EntityColumn(c)
    IN e.val

\* The board as the clue grid seeds it.
Claim_seeded ==
    \A c \in Cells :
        /\ fixed[c] <=> (Claim_clue(c) \in {Filled(d) : d \in Digits})
        /\ value[c] = Claim_clue(c)

\* C24: after a new-puzzle or reset-puzzle trigger every cell's Value and
\* Fixed are those the clue grid seeds (Fixed exactly on the clue cells, the
\* clue there and Empty elsewhere) and no cell is selected.
C24_Reseed ==
    last.op \in {"new_puzzle", "reset_puzzle"} =>
        Claim_seeded /\ selected = {}

\* A reset of a board with a selection.
C24_Witness ==
    /\ last.op = "reset_puzzle"
    /\ last.sel # {}
    /\ \E c \in Cells : ~fixed[c]
    /\ \E c \in Cells : fixed[c]

Claim_parsed_keys == {e.key : e \in parse_sudoku([i \in CellEntities |-> 0])}

\* C26: the seeding gives 81 cells, one per (row, column) pair; a cell is
\* Fixed exactly when its clue is a filled digit and then holds the clue;
\* every other cell starts Empty and not Fixed; no player input changes a
\* Fixed flag.
C26_Seeding ==
    [][/\ last'.op = "fill_puzzle" =>
            /\ Claim_seeded'
            /\ Cardinality(Claim_parsed_keys) = GridSize * GridSize
            /\ Claim_parsed_keys =
                  {[row |-> r, column |-> c, square |-> compute_square(r, c)] :
                      r \in 1..GridSize, c \in 1..GridSize}
       /\ pz_filled' =>
            \A c \in Cells :
                /\ fixed'[c] <=> (Claim_clue(c)' \in {Filled(d) : d \in Digits})
                /\ fixed'[c] => value'[c] = Claim_clue(c)'
       /\ last'.op \in PlayerOps => fixed' = fixed]_vars

\* A seeded board with a clue cell and a blank cell, and a digit typed with
\* both among the selected cells.
C26_Witness ==
    /\ last.op = "set_cell_value"
    /\ \E c \in last.sel : fixed[c]
    /\ \E c \in last.sel : ~fixed[c] /\ value[c] # Empty

\* C27: in a frame, once cell_click was started and until handle_clicks
\* reads the events, there is one CellClick if the left button is pressed
\* and none otherwise; its drag flag is false in the frame of the press and
\* true in the later frames of it, its multi flag says whether Shift or
\* Control is held, its target is the cell the index holds for the cursor.
C27_ClickPerPress ==
    (t_phase = "run" /\ (Ran("cell_click") \/ panicked) /\ ~Ran("handle_clicks")) =>
        click_events =
            IF t_in.mouse = "up" THEN <<>>
            ELSE <<[selected_cell |-> IF t_in.cursor \in Cells THEN t_in.cursor
                                      ELSE NoCell,
                    multi |-> t_in.shift \/ t_in.ctrl,
                    drag |-> t_in.mouse = "held"]>>

\* The selection after the events from position e on are handled one per
\* frame: each event's commands are computed from the selection before it
\* and applied before the next event is handled.
RECURSIVE Claim_one_per_tick(_, _, _, _)
Claim_one_per_tick(events, e, sel, vals) ==
    IF e > Len(events) THEN sel
    ELSE Claim_one_per_tick(events, e + 1,
             ApplyCommands(ClickCommands(events[e], sel, vals), 1, sel), vals)

StepOf(system) == system \in t_ran' /\ system \notin t_ran

\* C29: while a frame runs, the selection stays the one the frame started
\* with, whatever clicks the frame handles; a digit input and an erase of
\* the frame change the Values of cells of that selection only, and with no
\* Fixed cell in it they give each of its cells the mode's transition of the
\* digits, or Empty.
C29_SelectionNextTick ==
    [][t_phase = "run" =>
          /\ t_phase' = "run" => selected' = selected
          /\ \A c \in Cells : value'[c] # value[c] => c \in selected
          /\ (StepOf("set_cell_value") /\ \A c \in selected : ~fixed[c]) =>
                \A c \in selected :
                    value'[c] = Claim_transitions(input_mode, value[c], input_events, 1)
          /\ (StepOf("erase_selected_cells") /\ JustPressed("Delete")) =>
                \A c \in selected : ~fixed[c] => value'[c] = Empty]_vars

\* In the second frame a click that changes the selection was handled and a
\* digit was typed: a cell of the old selection holds the digit, the cell
\* under the cursor is not of the old selection and is still Empty.
C29_Witness ==
    /\ t_phase = "run"
    /\ ticks = 2
    /\ {"handle_clicks", "set_cell_value"} \subseteq t_ran
    /\ t_in.mouse # "up" /\ t_in.cursor \in Cells \ selected
    /\ t_in.cursor \in ApplyCommands(command_queue, 1, selected)
    /\ \E k \in t_in.keys : k.kind \in {"Key", "Numpad"}
    /\ \E c \in selected : ~fixed[c] /\ value[c] # Empty
    /\ ~fixed[t_in.cursor] /\ value[t_in.cursor] = Empty

\* The mode a frame's mode keys select: Fill before CenterMark before
\* CornerMark, and the mode as it was with none of them pressed.
Claim_mode_after(mode) ==
    CASE JustPressed("Q") -> "Fill"
      [] ~JustPressed("Q") /\ JustPressed("W") -> "CenterMark"
      [] ~JustPressed("Q") /\ ~JustPressed("W") /\ JustPressed("E") -> "CornerMark"
      [] OTHER -> mode

\* The digits of the digit keys pressed in the frame.
Claim_digits_pressed == {k.num : k \in {k \in t_in.keys : k.kind \in {"Key", "Numpad"}}}

====
